---- MODULE Spec2Model ----
(***************************************************************************)
(* Fever-prediction scripts of ml/scripts: the inference post-processing   *)
(* of predict_fever_model.py and predict_fever_model_FIXED.py (clinical    *)
(* temperature override, probability redistribution, severity bucket,     *)
(* SHAP attribution), the model-file handling of ensure_model/train_model, *)
(* the lab-report predict and evaluate_on_test_set.                        *)
(*                                                                         *)
(* Numbers.  Temperatures are integers in hundredths of a degree Celsius   *)
(* (39.0 C = 3900).  Probabilities are exact rationals [n |-> , d |-> ]    *)
(* in lowest terms with d > 0, so every arithmetic step of the code is     *)
(* computed exactly (the code's float64 rounding is not modelled).         *)
(***************************************************************************)
EXTENDS Integers, Sequences, FiniteSets, TLC

\* ------------------------------------------------------------------ bounds
\* temperatures offered in a payload: 37.50 C + 0.25 C * k, k in 0..MaxTempSteps
MaxTempSteps == 20
\* classifier outputs: probability vectors whose entries are multiples of 1/ProbGrain
ProbGrain == 4
\* SHAP rows served to predict: two features, the first attribution ranging
\* over -MaxShap..MaxShap, the second being +1 or -1
MaxShap == 1
\* rows of the training dataset: samples 1..NumSamples
NumSamples == 5
\* how many times the model file is written by train commands in one run
MaxDumps == 2
\* columns of the transformed row for which SHAP gives an attribution
MaxFeatures == 6

\* ------------------------------------------------------- exact rationals
Abs(x) == IF x < 0 THEN -x ELSE x

RECURSIVE GCD(_, _)
GCD(a, b) == IF b = 0 THEN a ELSE GCD(b, a % b)

\* the rational n/d (d # 0) in lowest terms with positive denominator
Rat(n, d) ==
  LET g == GCD(Abs(n), Abs(d))
      s == IF d < 0 THEN -1 ELSE 1
  IN [n |-> (s * n) \div g, d |-> (s * d) \div g]

RAdd(a, b) == Rat(a.n * b.d + b.n * a.d, a.d * b.d)
RSub(a, b) == Rat(a.n * b.d - b.n * a.d, a.d * b.d)
RMul(a, b) == Rat(a.n * b.n, a.d * b.d)
RDiv(a, b) == Rat(a.n * b.d, a.d * b.n)
RLt(a, b) == a.n * b.d < b.n * a.d
RLe(a, b) == a.n * b.d <= b.n * a.d
RMin(a, b) == IF RLt(b, a) THEN b ELSE a
RMax(a, b) == IF RLt(a, b) THEN b ELSE a
RZero == Rat(0, 1)
ROne == Rat(1, 1)

\* ------------------------------------------------------------- the classes
Classes == 0 .. 3

LABEL_MAP == [c \in Classes |->
  CASE c = 0 -> "No Fever"
    [] c = 1 -> "Low Fever"
    [] c = 2 -> "Moderate Fever"
    [] c = 3 -> "High Fever"]

\* sum of a probability vector over a set of classes, in index order
SumOver(p, S) ==
  LET term(i) == IF i \in S THEN p[i] ELSE RZero
  IN RAdd(RAdd(RAdd(term(0), term(1)), term(2)), term(3))

\* probabilities / probabilities.sum()
Normalise(p) == [i \in Classes |-> RDiv(p[i], SumOver(p, Classes))]

\* np.argmax: the first index holding the largest entry
ArgMax(p) ==
  CHOOSE i \in Classes :
    /\ \A j \in Classes : RLe(p[j], p[i])
    /\ \A j \in Classes : j < i => RLt(p[j], p[i])

\* model.predict(df)[0] of the fitted pipeline: the class of the largest probability
ModelPredict(proba) == ArgMax(proba)

\* --------------------------------------------------------- severity_bucket
severity_bucket(prob) ==
  IF RLt(prob, Rat(2, 10)) THEN "very unlikely"
  ELSE IF RLt(prob, Rat(5, 10)) THEN "low"
  ELSE IF RLt(prob, Rat(75, 100)) THEN "moderate"
  ELSE "high"

\* str.title() of the four bucket names
Title(s) ==
  CASE s = "very unlikely" -> "Very Unlikely"
    [] s = "low" -> "Low"
    [] s = "moderate" -> "Moderate"
    [] s = "high" -> "High"

Severity(prob) == Title(severity_bucket(prob)) \o " probability"

\* ------------------------------------------------------------ the payload
\* a payload is a function from field names to values; payload.get(f) is None
\* exactly when f is not in its domain
EmptyPayload == [f \in {} |-> 0]
HasTemperature(payload) == "temperature_c" \in DOMAIN payload
\* the temperature in degrees, as a rational
Celsius(t) == Rat(t, 100)


\* faulty variant: the >= 40.0 target without the min(0.98, .) cap
HighFeverTarget_uncapped(temperature) ==
  IF RLe(Rat(40, 1), temperature)
  THEN RAdd(Rat(92, 100), RMul(RSub(temperature, Rat(40, 1)), Rat(3, 100)))
  ELSE IF RLe(Rat(395, 10), temperature)
  THEN RAdd(Rat(88, 100), RMul(RSub(temperature, Rat(395, 10)), Rat(8, 100)))
  ELSE RAdd(Rat(85, 100), RMul(RSub(temperature, Rat(39, 1)), Rat(6, 100)))

\* ------------------------------------- predict_fever_model.py: the override
\* target_prob of the >= 39.0 branch
HighFeverTarget(temperature) ==
  IF RLe(Rat(40, 1), temperature)
  THEN RMin(Rat(98, 100),
            RAdd(Rat(92, 100), RMul(RSub(temperature, Rat(40, 1)), Rat(3, 100))))
  ELSE IF RLe(Rat(395, 10), temperature)
  THEN RAdd(Rat(88, 100), RMul(RSub(temperature, Rat(395, 10)), Rat(8, 100)))
  ELSE RAdd(Rat(85, 100), RMul(RSub(temperature, Rat(39, 1)), Rat(6, 100)))

\* probabilities[c] = target; the rest rescaled to 1 - target in proportion,
\* or set to (1 - target) / 3 each when the rest sums to 0
Redistribute(probabilities, c, target_prob) ==
  LET set == [probabilities EXCEPT ![c] = target_prob]
      remaining_prob == RSub(ROne, target_prob)
      other_probs_sum == SumOver(set, Classes \ {c})
  IN IF RLt(RZero, other_probs_sum)
     THEN [i \in Classes |->
            IF i = c THEN set[i]
            ELSE RMul(RDiv(set[i], other_probs_sum), remaining_prob)]
     ELSE [i \in Classes |->
            IF i = c THEN set[i] ELSE RDiv(remaining_prob, Rat(3, 1))]

\* the boost of a High Fever prediction below 0.85: as Redistribute, without
\* the even fallback
RedistributeNoFallback(probabilities, c, target_prob) ==
  LET set == [probabilities EXCEPT ![c] = target_prob]
      remaining_prob == RSub(ROne, target_prob)
      other_probs_sum == SumOver(set, Classes \ {c})
  IN IF RLt(RZero, other_probs_sum)
     THEN [i \in Classes |->
            IF i = c THEN set[i]
            ELSE RMul(RDiv(set[i], other_probs_sum), remaining_prob)]
     ELSE set


\* faulty variant: the >= 39.0 branch keeps the class the model predicted
OverrideHigh_keepsModelClass(temperature, proba) ==
  [prediction |-> ModelPredict(proba),
   probabilities |->
     Normalise(Redistribute(proba, 3, HighFeverTarget(temperature)))]

\* faulty variant: the >= 39.0 branch sets probabilities[3] and neither redistributes
\* nor renormalises
OverrideHigh_setsOnly(temperature, proba) ==
  [prediction |-> 3,
   probabilities |-> [proba EXCEPT ![3] = HighFeverTarget(temperature)]]

\* faulty variant: the >= 39.0 branch boosts the model's own High Fever probability
\* (as the FIXED script does) instead of setting the temperature target
OverrideHigh_boostsModelProb(temperature, proba) ==
  [prediction |-> 3,
   probabilities |->
     Normalise(Redistribute(proba, 3,
       RMax(HighFeverTarget(temperature), RMin(Rat(98, 100), proba[3]))))]

\* branch temperature >= 39.0
OverrideHigh(temperature, proba) ==
  [prediction |-> 3,
   probabilities |->
     Normalise(Redistribute(proba, 3, HighFeverTarget(temperature)))]

\* faulty variant: a "No Fever" prediction is always replaced by Moderate Fever
\* (as the FIXED script does), whatever the temperature
NoFeverReplacement_alwaysModerate(temperature) ==
  [prediction |-> 2,
   target_prob |-> RAdd(Rat(70, 100),
                        RMul(RSub(temperature, Rat(38, 1)), Rat(20, 100)))]

\* the class and target that replace a "No Fever" prediction at 38.0 <= t < 39.0
NoFeverReplacement(temperature) ==
  IF RLe(Rat(385, 10), temperature)
  THEN [prediction |-> 3,
        target_prob |-> RAdd(Rat(80, 100),
                             RMul(RSub(temperature, Rat(385, 10)), Rat(10, 100)))]
  ELSE [prediction |-> 2,
        target_prob |-> RAdd(Rat(70, 100),
                             RMul(RSub(temperature, Rat(38, 1)), Rat(20, 100)))]


\* faulty variant: the 38.0 <= t < 39.0 branch leaves a "No Fever" prediction alone
OverrideFever_keepsNoFever(temperature, proba) ==
  [prediction |-> ModelPredict(proba), probabilities |-> proba]

\* faulty variant: the 38.0 <= t < 39.0 branch never boosts a High Fever prediction
OverrideFever_noBoost(temperature, proba) ==
  LET prediction == ModelPredict(proba)
  IN IF prediction = 0
     THEN LET r == NoFeverReplacement(temperature)
          IN [prediction |-> r.prediction,
              probabilities |->
                Normalise(Redistribute(proba, r.prediction, r.target_prob))]
     ELSE [prediction |-> prediction, probabilities |-> proba]

\* branch 38.0 <= temperature < 39.0
OverrideFever(temperature, proba) ==
  LET prediction == ModelPredict(proba)
  IN IF prediction = 0
     THEN LET r == NoFeverReplacement(temperature)
          IN [prediction |-> r.prediction,
              probabilities |->
                Normalise(Redistribute(proba, r.prediction, r.target_prob))]
     ELSE LET predicted_prob == proba[prediction]
          IN IF prediction = 3 /\ RLt(predicted_prob, Rat(85, 100))
             THEN [prediction |-> prediction,
                   probabilities |->
                     Normalise(RedistributeNoFallback(proba, prediction,
                       RMax(Rat(85, 100), RAdd(predicted_prob, Rat(15, 100)))))]
             ELSE [prediction |-> prediction, probabilities |-> proba]

\* no override: temperature absent or below 38.0
NoOverride(proba) ==
  [prediction |-> ModelPredict(proba), probabilities |-> proba]

\* the whole temperature cascade of predict
ClinicalOverride(payload, proba) ==
  IF HasTemperature(payload)
  THEN LET temperature == Celsius(payload.temperature_c)
       IN IF RLe(Rat(39, 1), temperature) THEN OverrideHigh(temperature, proba)
          ELSE IF RLe(Rat(38, 1), temperature) THEN OverrideFever(temperature, proba)
          ELSE NoOverride(proba)
  ELSE NoOverride(proba)

\* predicted_prob = float(probabilities[predicted_class_idx])
PredictedProb(o) == o.probabilities[o.prediction]

\* --------------------------------- predict_fever_model_FIXED.py: the override
FixedOverrideHigh(proba) ==
  [prediction |-> 3,
   probabilities |->
     Normalise([proba EXCEPT ![3] = RMin(Rat(95, 100), RAdd(proba[3], Rat(4, 10)))])]

FixedOverrideFever(temperature, proba) ==
  LET prediction == ModelPredict(proba)
  IN IF prediction = 0
     THEN LET c == IF RLt(temperature, Rat(39, 1)) THEN 2 ELSE 3
              boosted == [proba EXCEPT ![c] = RMin(Rat(90, 100), RAdd(proba[c], Rat(3, 10)))]
              reduced == [boosted EXCEPT ![0] = RMax(Rat(5, 100), RSub(boosted[0], Rat(3, 10)))]
          IN [prediction |-> c, probabilities |-> Normalise(reduced)]
     ELSE [prediction |-> prediction, probabilities |-> proba]

FixedClinicalOverride(payload, proba) ==
  IF HasTemperature(payload)
  THEN LET temperature == Celsius(payload.temperature_c)
       IN IF RLe(Rat(39, 1), temperature) THEN FixedOverrideHigh(proba)
          ELSE IF RLe(Rat(38, 1), temperature) THEN FixedOverrideFever(temperature, proba)
          ELSE NoOverride(proba)
  ELSE NoOverride(proba)

\* ------------------------------------------------------ compute_shap_values
\* What the SHAP explainer yields for the row: raises = some call of the try
\* block raised; class_shap = the 1-D attribution row selected for class_index;
\* n_names = len(feature_names).
\* np.argsort(np.abs(class_shap))[::-1]: indices (0-based) by decreasing
\* absolute value; equal values come out with the larger index first (the
\* ascending sort keeps equal values in index order, then the order is reversed)
RECURSIVE DescendingByAbs(_, _)
DescendingByAbs(class_shap, left) ==
  IF left = {} THEN <<>>
  ELSE LET idx == CHOOSE i \in left :
                    \A j \in left :
                      \/ Abs(class_shap[j + 1]) < Abs(class_shap[i + 1])
                      \/ (Abs(class_shap[j + 1]) = Abs(class_shap[i + 1]) /\ j <= i)
       IN <<idx>> \o DescendingByAbs(class_shap, left \ {idx})

FirstN(seq, n) == SubSeq(seq, 1, IF Len(seq) < n THEN Len(seq) ELSE n)

RECURSIVE TopFeatureEntries(_, _, _)
TopFeatureEntries(ordering, class_shap, n_names) ==
  IF ordering = <<>> THEN <<>>
  ELSE LET idx == Head(ordering)
           rest == TopFeatureEntries(Tail(ordering), class_shap, n_names)
       IN IF idx < n_names /\ idx < Len(class_shap)
          THEN <<[feature |-> idx,
                  importance |-> Abs(class_shap[idx + 1]),
                  direction |-> IF class_shap[idx + 1] >= 0 THEN "positive"
                                ELSE "negative"]>> \o rest
          ELSE rest

\* faulty variant: the ordering is not cut to its first five indices
TopFeatures_uncut(shap) ==
  IF Len(shap.class_shap) = 0 THEN <<>>
  ELSE TopFeatureEntries(
         DescendingByAbs(shap.class_shap, 0 .. (Len(shap.class_shap) - 1)),
         shap.class_shap, shap.n_names)

\* the try block after class_shap is selected
TopFeatures(shap) ==
  IF Len(shap.class_shap) = 0 THEN <<>>
  ELSE TopFeatureEntries(
         FirstN(DescendingByAbs(shap.class_shap, 0 .. (Len(shap.class_shap) - 1)), 5),
         shap.class_shap, shap.n_names)


\* faulty variant: no try/except around the SHAP computation
compute_shap_values_uncaught(shap) ==
  [raised |-> shap.raises,
   value |-> IF shap.raises THEN <<>> ELSE TopFeatures(shap)]

\* try: ... except Exception: return [].  raised = an exception leaves the
\* function, which the except clause never lets happen.
compute_shap_values(shap) ==
  [raised |-> FALSE,
   value |-> IF shap.raises THEN <<>> ELSE TopFeatures(shap)]

\* ----------------------------------------------------- what predict returns
NoResult == [status |-> "none"]
Raised(e) == [status |-> "raised", error |-> e]

\* class_index of compute_shap_values: the argmax of the classifier's own
\* predict_proba for the row, whose attributions are then selected
shap_class_index(proba) == ArgMax(proba)

\* the tail of predict: class index, probability, label, SHAP, the returned dict
\* (shap_class_index records the class whose attributions top_features holds)
Returned(o, proba, shap) ==
  LET predicted_class_idx == o.prediction
      predicted_prob == PredictedProb(o)
      shap_features == compute_shap_values(shap)
  IN IF shap_features.raised THEN Raised("shap")
     ELSE [status |-> "returned",
           label |-> LABEL_MAP[predicted_class_idx],
           probability |-> predicted_prob,
           severity |-> Severity(predicted_prob),
           top_features |-> shap_features.value,
           predicted_class_index |-> predicted_class_idx,
           shap_class_index |-> shap_class_index(proba),
           probabilities |-> o.probabilities]

\* predict of predict_fever_model.py once the model is loaded
PredictOutcome(payload, proba, shap) ==
  Returned(ClinicalOverride(payload, proba), proba, shap)

\* predict of predict_fever_model_FIXED.py once the model is loaded
FixedPredictOutcome(payload, proba, shap) ==
  Returned(FixedClinicalOverride(payload, proba), proba, shap)

\* ------------------------------------------------------------- input sets
Temperatures == {3750 + 25 * k : k \in 0 .. MaxTempSteps}
Payloads == {EmptyPayload} \cup {[temperature_c |-> t] : t \in Temperatures}

\* predict_proba rows: non-negative, summing to 1
ModelOutputs ==
  {[i \in Classes |-> Rat(k[i], ProbGrain)] :
     k \in {q \in [Classes -> 0 .. ProbGrain] : q[0] + q[1] + q[2] + q[3] = ProbGrain}}

ShapRows == {<<a, b>> : a \in (-MaxShap) .. MaxShap, b \in {-1, 1}}
ShapInputs ==
  {[raises |-> TRUE, class_shap |-> <<>>, n_names |-> 0]}
  \cup {[raises |-> FALSE, class_shap |-> r, n_names |-> Len(r)] : r \in ShapRows}

Samples == 1 .. NumSamples
Scripts == {"predict_fever_model", "predict_fever_model_FIXED"}

\* ------------------------------------------------------------------ state
VARIABLES
  modelFile,     \* MODEL_PATH: [exists |-> FALSE] or [exists, version, fit]
  metricsFile,   \* METRICS_PATH: version of the model it describes, 0 = absent
  datasetExists, \* DEFAULT_DATASET is on disk
  pc,            \* where the running predict is: idle, ensure_model, load, infer
  script,        \* which of the two predict scripts is running / ran last
  payload,       \* the payload of that call
  fileAtCall,    \* modelFile as it was when predict was entered
  trainedInCall, \* train_model ran to completion inside this call
  model,         \* the object load(MODEL_PATH) returned to this call
  observed,      \* what the loaded model and SHAP gave for the payload
  result,        \* what predict of predict_fever_model.py returned / raised
  fixedResult,   \* what predict of predict_fever_model_FIXED.py returned / raised
  command,       \* outcome of the last train / evaluate command line run
  labModelFile,  \* lab_report_model.joblib is on disk
  labDatasetExists, \* the lab-report training CSV is on disk
  labPc,         \* where the lab-report predict is: idle, ensure_model, infer, done
  labPayload,    \* the payload of the lab-report call: lab_values and markers
  labRow,        \* the one-row frame build_row made for the classifier
  labResult,     \* what the lab-report predict returned / raised
  rawPayload,    \* the payload handed to normalize_payload
  df             \* the one-row frame normalize_payload returned

fileVars == <<modelFile, metricsFile, datasetExists>>
servingVars == <<pc, script, payload, fileAtCall, trainedInCall, model, observed,
                 result, fixedResult>>
labVars == <<labModelFile, labDatasetExists, labPc, labPayload, labRow, labResult>>
normVars == <<rawPayload, df>>
vars == <<fileVars, servingVars, command, labVars, normVars>>

Absent == [exists |-> FALSE]
NoModel == [loaded |-> FALSE]
NotObserved == [seen |-> FALSE]
NextVersion(f) == IF f.exists THEN f.version + 1 ELSE 1

\* dump(final_model, MODEL_PATH) after final_model.fit(features, target): the
\* saved model was fit on every row of the dataset
DumpedOn(f, rows) == [exists |-> TRUE, version |-> NextVersion(f), fit |-> rows]
Dumped(f) == DumpedOn(f, Samples)

NoCommand == [cmd |-> "none"]
NoLabPayload == [lab_values |-> [f \in {} |-> 0], markers |-> [k |-> "None"]]
NoLabRow == [f \in {} |-> 0]

NoRawPayload == [f \in {} |-> 0]
NoFrame == [f \in {} |-> 0]

\* normalize_payload has not been called
NormIdle ==
  /\ rawPayload = NoRawPayload
  /\ df = NoFrame

\* no predict call is in progress or has returned
ServingIdle ==
  /\ pc = "idle"
  /\ script = "predict_fever_model"
  /\ payload = EmptyPayload
  /\ fileAtCall = modelFile
  /\ trainedInCall = FALSE
  /\ model = NoModel
  /\ observed = NotObserved
  /\ result = NoResult
  /\ fixedResult = NoResult

\* the lab-report script is not in use
LabIdle ==
  /\ labModelFile = FALSE
  /\ labDatasetExists = FALSE
  /\ labPc = "idle"
  /\ labPayload = NoLabPayload
  /\ labRow = NoLabRow
  /\ labResult = NoResult

FilesInit ==
  /\ modelFile \in {Absent, Dumped(Absent)}
  /\ metricsFile = IF modelFile.exists THEN modelFile.version ELSE 0
  /\ datasetExists \in BOOLEAN

Init ==
  /\ FilesInit
  /\ ServingIdle
  /\ command = NoCommand
  /\ LabIdle
  /\ NormIdle

\* predict is entered
PredictCall(s, pl) ==
  /\ pc = "idle"
  /\ pc' = "ensure_model"
  /\ script' = s
  /\ payload' = pl
  /\ fileAtCall' = modelFile
  /\ trainedInCall' = FALSE
  /\ model' = NoModel
  /\ observed' = NotObserved
  /\ result' = NoResult
  /\ fixedResult' = NoResult
  /\ UNCHANGED <<modelFile, metricsFile, datasetExists>>
  /\ UNCHANGED <<command, labVars, normVars>>

\* the exception leaves predict: the script that ran has raised
Fail(e) ==
  /\ pc' = "idle"
  /\ IF script = "predict_fever_model"
     THEN result' = Raised(e) /\ UNCHANGED fixedResult
     ELSE fixedResult' = Raised(e) /\ UNCHANGED result


\* faulty variant: the existence test inverted
ensure_model_needs_training_inverted == modelFile.exists

\* ensure_model: MODEL_PATH.exists()
ensure_model_needs_training == ~modelFile.exists

\* ensure_model, model file present: nothing to do
EnsureModelPresent ==
  /\ pc = "ensure_model"
  /\ ~ensure_model_needs_training
  /\ pc' = "load"
  /\ UNCHANGED <<modelFile, metricsFile, datasetExists, script, payload, fileAtCall,
                 trainedInCall, model, observed, result, fixedResult>>
  /\ UNCHANGED <<command, labVars, normVars>>

\* ensure_model, model file absent: train_model({}) reads the dataset, fits,
\* dumps the model and writes the metrics
EnsureModelTrain ==
  /\ pc = "ensure_model"
  /\ ensure_model_needs_training
  /\ datasetExists
  /\ modelFile' = Dumped(modelFile)
  /\ metricsFile' = modelFile'.version
  /\ trainedInCall' = TRUE
  /\ pc' = "load"
  /\ UNCHANGED <<datasetExists, script, payload, fileAtCall, model, observed,
                 result, fixedResult>>
  /\ UNCHANGED <<command, labVars, normVars>>

\* train_model: raise FileNotFoundError when the dataset is missing
EnsureModelTrainFails ==
  /\ pc = "ensure_model"
  /\ ensure_model_needs_training
  /\ ~datasetExists
  /\ Fail("FileNotFoundError: dataset")
  /\ UNCHANGED <<modelFile, metricsFile, datasetExists, script, payload, fileAtCall,
                 trainedInCall, model, observed>>
  /\ UNCHANGED <<command, labVars, normVars>>

\* model = load(MODEL_PATH); joblib raises when the file is missing
LoadModel ==
  /\ pc = "load"
  /\ IF modelFile.exists
     THEN /\ model' = [loaded |-> TRUE, version |-> modelFile.version,
                       fit |-> modelFile.fit]
          /\ pc' = "infer"
          /\ UNCHANGED <<result, fixedResult>>
     ELSE /\ Fail("FileNotFoundError: model")
          /\ UNCHANGED model
  /\ UNCHANGED <<modelFile, metricsFile, datasetExists, script, payload, fileAtCall,
                 trainedInCall, observed>>
  /\ UNCHANGED <<command, labVars, normVars>>

\* the rest of predict: override cascade, SHAP, the returned dict
Infer(proba, shap) ==
  /\ pc = "infer"
  /\ observed' = [seen |-> TRUE, proba |-> proba, shap |-> shap]
  /\ pc' = "idle"
  /\ IF script = "predict_fever_model"
     THEN result' = PredictOutcome(payload, proba, shap) /\ UNCHANGED fixedResult
     ELSE fixedResult' = FixedPredictOutcome(payload, proba, shap) /\ UNCHANGED result
  /\ UNCHANGED <<modelFile, metricsFile, datasetExists, script, payload, fileAtCall,
                 trainedInCall, model>>
  /\ UNCHANGED <<command, labVars, normVars>>

Next ==
  \/ \E s \in Scripts, pl \in Payloads : PredictCall(s, pl)
  \/ EnsureModelPresent
  \/ EnsureModelTrain
  \/ EnsureModelTrainFails
  \/ LoadModel
  \/ \E proba \in ModelOutputs, shap \in ShapInputs : Infer(proba, shap)

Spec == Init /\ [][Next]_vars

\* ------------------------------------ the two predict scripts side by side
\* Both scripts are given the same payload while the same saved model is on
\* disk, so the classifier and SHAP answer both of them alike.
InitCompare ==
  /\ modelFile = Dumped(Absent)
  /\ metricsFile = modelFile.version
  /\ datasetExists = TRUE
  /\ pc = "idle"
  /\ script = "predict_fever_model"
  /\ payload \in Payloads
  /\ fileAtCall = modelFile
  /\ trainedInCall = FALSE
  /\ model = [loaded |-> TRUE, version |-> modelFile.version, fit |-> modelFile.fit]
  /\ observed \in {[seen |-> TRUE, proba |-> proba, shap |-> shap] :
                     proba \in ModelOutputs, shap \in ShapInputs}
  /\ result = NoResult
  /\ fixedResult = NoResult
  /\ command = NoCommand
  /\ LabIdle
  /\ NormIdle

\* predict of predict_fever_model.py, start to return (the model file exists,
\* so ensure_model does nothing and load succeeds)
RunOriginal ==
  /\ result = NoResult
  /\ ~ensure_model_needs_training
  /\ script' = "predict_fever_model"
  /\ result' = PredictOutcome(payload, observed.proba, observed.shap)
  /\ UNCHANGED <<fileVars, pc, payload, fileAtCall, trainedInCall, model, observed,
                 fixedResult, command, labVars, normVars>>

\* predict of predict_fever_model_FIXED.py, start to return
RunFixed ==
  /\ fixedResult = NoResult
  /\ ~ensure_model_needs_training
  /\ script' = "predict_fever_model_FIXED"
  /\ fixedResult' = FixedPredictOutcome(payload, observed.proba, observed.shap)
  /\ UNCHANGED <<fileVars, pc, payload, fileAtCall, trainedInCall, model, observed,
                 result, command, labVars, normVars>>

NextCompare == RunOriginal \/ RunFixed

SpecCompare == InitCompare /\ [][NextCompare]_vars

\* ------------------------------------------- predict with wider SHAP rows
\* attributions of distinct magnitudes, of both signs, and zero
WideShapValues == {-(MaxShap + 1), 0, MaxShap}

RECURSIVE RowsOfLength(_)
RowsOfLength(n) ==
  IF n = 0 THEN {<<>>}
  ELSE {Append(r, v) : r \in RowsOfLength(n - 1), v \in WideShapValues}

\* what the explainer and the preprocessor may give: an exception, an empty
\* row, the short rows, or a row of MaxFeatures attributions; feature_names
\* shorter than, as long as, or longer than the row
WideShapInputs ==
  ShapInputs
  \cup {[raises |-> FALSE, class_shap |-> <<>>, n_names |-> 0]}
  \cup {[raises |-> FALSE, class_shap |-> r, n_names |-> n] :
          r \in RowsOfLength(MaxFeatures),
          n \in {MaxFeatures - 2, MaxFeatures, MaxFeatures + 1}}

InitShap ==
  /\ modelFile = Dumped(Absent)
  /\ metricsFile = modelFile.version
  /\ datasetExists = TRUE
  /\ pc = "idle"
  /\ script = "predict_fever_model"
  /\ payload \in {EmptyPayload, [temperature_c |-> 3900]}
  /\ fileAtCall = modelFile
  /\ trainedInCall = FALSE
  /\ model = [loaded |-> TRUE, version |-> modelFile.version, fit |-> modelFile.fit]
  /\ observed \in {[seen |-> TRUE, proba |-> proba, shap |-> shap] :
                     proba \in {[i \in Classes |-> IF i = c THEN ROne ELSE RZero] :
                                 c \in {0, 3}},
                     shap \in WideShapInputs}
  /\ result = NoResult
  /\ fixedResult = NoResult
  /\ command = NoCommand
  /\ LabIdle
  /\ NormIdle

NextShap == RunOriginal

SpecShap == InitShap /\ [][NextShap]_vars

\* ------------------------------ train_fever_model.py / evaluate_model_accuracy.py
\* rows a CSV named by options.datasetPath may hold: any non-empty choice among
\* the default rows and one row the default file lacks
CustomDatasets == SUBSET (1 .. (NumSamples + 1)) \ {{}}

\* train_test_split(test_size=0.2): n_test = ceil(0.2 * n)
TestSize(n) == (n + 4) \div 5

\* the test splits train_test_split can produce from the rows (the seeded
\* shuffle picks one of them; which one is not modelled)
TestSplits(rows) == {t \in SUBSET rows : Cardinality(t) = TestSize(Cardinality(rows))}

\* train_fever_model.py main -> train_model(options) on the default dataset
TrainCommand ==
  /\ NextVersion(modelFile) <= MaxDumps
  /\ datasetExists
  /\ modelFile' = Dumped(modelFile)
  /\ metricsFile' = modelFile'.version
  /\ command' = [cmd |-> "train", status |-> "ok", dataset |-> "default"]
  /\ UNCHANGED <<datasetExists, servingVars, labVars, normVars>>

\* train_model(options) with options.datasetPath naming another CSV
TrainCommandCustom(rows) ==
  /\ NextVersion(modelFile) <= MaxDumps
  /\ modelFile' = DumpedOn(modelFile, rows)
  /\ metricsFile' = modelFile'.version
  /\ command' = [cmd |-> "train", status |-> "ok", dataset |-> "custom"]
  /\ UNCHANGED <<datasetExists, servingVars, labVars, normVars>>

\* train_model: the dataset is missing
TrainCommandFails ==
  /\ ~datasetExists
  /\ command' = [cmd |-> "train", status |-> "FileNotFoundError", dataset |-> "default"]
  /\ UNCHANGED <<fileVars, servingVars, labVars, normVars>>

\* evaluate_on_test_set: None when the dataset or the model file is missing,
\* else the saved model is loaded and scored on X_test
EvaluateOnTestSet(X_test) ==
  /\ IF ~datasetExists
     THEN command' = [cmd |-> "evaluate", status |-> "dataset not found"]
     ELSE IF ~modelFile.exists
     THEN command' = [cmd |-> "evaluate", status |-> "model not found"]
     ELSE command' = [cmd |-> "evaluate", status |-> "evaluated",
                      X_test |-> X_test,
                      X_train |-> Samples \ X_test,
                      model_fit |-> modelFile.fit,
                      test_samples |-> Cardinality(X_test),
                      train_samples |-> Cardinality(Samples \ X_test)]
  /\ UNCHANGED <<fileVars, servingVars, labVars, normVars>>

InitEval ==
  /\ FilesInit
  /\ ServingIdle
  /\ command = NoCommand
  /\ LabIdle
  /\ NormIdle

NextEval ==
  \/ TrainCommand
  \/ \E rows \in CustomDatasets : TrainCommandCustom(rows)
  \/ TrainCommandFails
  \/ \E X_test \in TestSplits(Samples) : EvaluateOnTestSet(X_test)

SpecEval == InitEval /\ [][NextEval]_vars

\* --------------------------------------------- predict_lab_report_model.py
TARGET_LABELS ==
  {"Viral Fever", "Bacterial Fever", "Dengue", "Typhoid", "Malaria",
   "Autoimmune-related fever"}

\* the lab values build_explanation reads (the other seven feature columns are
\* absent from the payloads here and take their defaults in build_row)
LabFields == {"wbc_count", "platelet_count", "crp", "temperature_c"}

DEFAULT_VALUES ==
  [wbc_count |-> 7200, platelet_count |-> 240000, crp |-> 5, temperature_c |-> 37]

\* JSON values a lab field may hold: null / absent, "", "null", or a number
PyNone == [k |-> "None", v |-> 0]
PyEmptyStr == [k |-> "str", v |-> 0]
PyNullStr == [k |-> "str", v |-> 1]
PyNum(x) == [k |-> "num", v |-> x]

\* Python truthiness of such a value
Truthy(x) ==
  CASE x.k = "None" -> FALSE
    [] x.k = "str" -> x # PyEmptyStr
    [] x.k = "num" -> x.v # 0

\* build_row: val in (None, "", "null") -> the default, else float(val)
build_row(values) ==
  [f \in LabFields |->
     IF values[f] \in {PyNone, PyEmptyStr, PyNullStr} THEN DEFAULT_VALUES[f]
     ELSE values[f].v]

\* "Dengue" in marker: a marker is modelled by the set of disease names its
\* text contains; markers is None or a list of markers
MarkersOrEmpty(markers) == IF markers.k = "None" THEN <<>> ELSE markers.list
AnyMarkerNames(markers, name) ==
  \E i \in 1 .. Len(MarkersOrEmpty(markers)) : name \in MarkersOrEmpty(markers)[i]

adjust_with_markers(prediction, markers) ==
  IF AnyMarkerNames(markers, "Dengue")
  THEN [fever_type |-> "Dengue", confidence |-> Rat(9, 10)]
  ELSE IF AnyMarkerNames(markers, "Malaria")
  THEN [fever_type |-> "Malaria", confidence |-> Rat(85, 100)]
  ELSE IF AnyMarkerNames(markers, "Typhoid")
  THEN [fever_type |-> "Typhoid", confidence |-> Rat(82, 100)]
  ELSE prediction

\* values.get(f) and values[f] <op> bound, for one field: the comparison of a
\* str with a number raises TypeError
LabTest(x, holds) ==
  IF ~Truthy(x) THEN "no"
  ELSE IF x.k = "str" THEN "TypeError"
  ELSE IF holds THEN "yes" ELSE "no"

RECURSIVE JoinWithSpace(_)
JoinWithSpace(reasons) ==
  IF Len(reasons) = 0 THEN ""
  ELSE IF Len(reasons) = 1 THEN reasons[1]
  ELSE reasons[1] \o " " \o JoinWithSpace(Tail(reasons))

\* build_explanation(values, label)
build_explanation(values, label) ==
  LET wbc == LabTest(values.wbc_count, values.wbc_count.v > 12000)
      plt == LabTest(values.platelet_count, values.platelet_count.v < 150000)
      crp == LabTest(values.crp, values.crp.v > 15)
      tmp == LabTest(values.temperature_c, values.temperature_c.v >= 39)
      reasons ==
        (IF wbc = "yes" THEN <<"Elevated WBC count suggests bacterial stress.">>
         ELSE <<>>)
        \o (IF plt = "yes"
            THEN <<"Low platelet count consistent with viral hemorrhagic fevers.">>
            ELSE <<>>)
        \o (IF crp = "yes" THEN <<"CRP above 15 mg/L indicates ongoing inflammation.">>
            ELSE <<>>)
        \o (IF tmp = "yes" THEN <<"High temperature observed in report.">> ELSE <<>>)
  IN IF "TypeError" \in {wbc, plt, crp, tmp}
     THEN [raised |-> TRUE, text |-> ""]
     ELSE [raised |-> FALSE,
           text |-> IF reasons = <<>>
                    THEN "Pattern of labs aligned with " \o label \o "."
                    ELSE JoinWithSpace(reasons)]

\* round(confidence, 4)
Round4(r) == Rat((2 * 10000 * r.n + r.d) \div (2 * r.d), 10000)

\* predict of the lab-report script once the artifact is loaded; out is the
\* class of the largest probability and that probability
LabPredictOutcome(lab_payload, out) ==
  LET adjusted == adjust_with_markers(
                    [fever_type |-> out.fever_type, confidence |-> out.confidence],
                    lab_payload.markers)
      explanation == build_explanation(lab_payload.lab_values, adjusted.fever_type)
  IN IF explanation.raised THEN Raised("TypeError")
     ELSE [status |-> "returned",
           fever_type |-> adjusted.fever_type,
           confidence |-> Round4(adjusted.confidence),
           explanation |-> explanation.text]

\* the values offered for one lab field: missing, "null", 0, the bound itself
\* and the first value beyond it
LabCandidates(at, beyond) ==
  {PyNone, PyNullStr, PyNum(0), PyNum(at), PyNum(beyond)}

LabValueSets ==
  {[wbc_count |-> w, platelet_count |-> p, crp |-> c, temperature_c |-> t] :
     w \in LabCandidates(12000, 12001) \cup {PyEmptyStr},
     p \in LabCandidates(150000, 149999),
     c \in LabCandidates(15, 16), t \in LabCandidates(38, 39)}

LabMarkers ==
  {[k |-> "None", list |-> <<>>],
   [k |-> "list", list |-> <<{}, {"Malaria", "Typhoid"}>>],
   [k |-> "list", list |-> <<{"Typhoid"}, {"Dengue"}>>]}

LabPayloads == {[lab_values |-> v, markers |-> m] : v \in LabValueSets, m \in LabMarkers}

LabModelOutputs ==
  {[fever_type |-> f, confidence |-> Rat(1, 3)] : f \in TARGET_LABELS \ {"Typhoid"}}
  \cup {[fever_type |-> "Typhoid", confidence |-> ROne]}

InitLab ==
  /\ modelFile = Absent
  /\ metricsFile = 0
  /\ datasetExists = FALSE
  /\ ServingIdle
  /\ command = NoCommand
  /\ labModelFile \in BOOLEAN
  /\ labDatasetExists \in BOOLEAN
  /\ labPc = "idle"
  /\ labPayload = NoLabPayload
  /\ labRow = NoLabRow
  /\ labResult = NoResult
  /\ NormIdle

\* main: the script is run with a payload and enters predict
LabPredictCall(lab_payload) ==
  /\ labPc = "idle"
  /\ labPc' = "ensure_model"
  /\ labPayload' = lab_payload
  /\ UNCHANGED <<normVars, fileVars, servingVars, command, labModelFile, labDatasetExists,
                 labRow, labResult>>

\* ensure_model: the artifact exists
LabEnsureModelPresent ==
  /\ labPc = "ensure_model"
  /\ labModelFile
  /\ labPc' = "infer"
  /\ UNCHANGED <<normVars, fileVars, servingVars, command, labModelFile, labDatasetExists,
                 labPayload, labRow, labResult>>

\* ensure_model: train_model() builds the dataset from the CSV, fits and dumps
LabEnsureModelTrain ==
  /\ labPc = "ensure_model"
  /\ ~labModelFile
  /\ labDatasetExists
  /\ labModelFile' = TRUE
  /\ labPc' = "infer"
  /\ UNCHANGED <<normVars, fileVars, servingVars, command, labDatasetExists, labPayload,
                 labRow, labResult>>

\* train_model(): pd.read_csv raises when the CSV is missing
LabEnsureModelTrainFails ==
  /\ labPc = "ensure_model"
  /\ ~labModelFile
  /\ ~labDatasetExists
  /\ labResult' = Raised("FileNotFoundError: dataset")
  /\ labPc' = "done"
  /\ UNCHANGED <<normVars, fileVars, servingVars, command, labModelFile, labDatasetExists,
                 labPayload, labRow>>

\* load, build_row, predict_proba, adjust_with_markers, build_explanation
LabInfer(out) ==
  /\ labPc = "infer"
  /\ labRow' = build_row(labPayload.lab_values)
  /\ labResult' = LabPredictOutcome(labPayload, out)
  /\ labPc' = "done"
  /\ UNCHANGED <<normVars, fileVars, servingVars, command, labModelFile, labDatasetExists,
                 labPayload>>

NextLab ==
  \/ \E lab_payload \in LabPayloads : LabPredictCall(lab_payload)
  \/ LabEnsureModelPresent
  \/ LabEnsureModelTrain
  \/ LabEnsureModelTrainFails
  \/ \E out \in LabModelOutputs : LabInfer(out)

SpecLab == InitLab /\ [][NextLab]_vars

\* ------------------------------------- normalize_payload / derive_features
\* the fields of each feature list that the derived flags and the defaulting
\* rules depend on (the other fields go through the same three loops)
NUMERIC_FEATURES == {"age", "temperature_c", "heart_rate_bpm"}
BOOLEAN_FEATURES == {"chills", "tachycardia", "fever_flag"}
CATEGORICAL_FEATURES == {"gender"}

\* a non-empty categorical word of the payload, and the word "unknown"
PyWord == [k |-> "str", v |-> 2]
Unknown == [k |-> "str", v |-> 3]
\* JSON true / false
PyTrue == PyNum(1)
PyFalse == PyNum(0)

\* series < n, series > n, series >= n on one cell: a comparison with a missing
\* value is False
CellLess(x, n) == x.k = "num" /\ x.v < n
CellGreater(x, n) == x.k = "num" /\ x.v > n
CellAtLeast(x, n) == x.k = "num" /\ x.v >= n


\* faulty variant: the flags supplied in the payload are kept
derive_features_keepsSupplied(frame) ==
  [frame EXCEPT !.tachycardia = IF frame.tachycardia THEN 1 ELSE 0,
                !.fever_flag = IF frame.fever_flag THEN 1 ELSE 0]

\* derive_features: tachycardia and fever_flag are overwritten (temperature_c
\* is held in hundredths of a degree)
derive_features(frame) ==
  LET threshold == IF CellLess(frame.age, 12) THEN 110
                   ELSE IF CellLess(frame.age, 60) THEN 100 ELSE 95
  IN [frame EXCEPT
        !.tachycardia = IF CellGreater(frame.heart_rate_bpm, threshold) THEN 1 ELSE 0,
        !.fever_flag = IF CellAtLeast(frame.temperature_c, 3800) THEN 1 ELSE 0]

\* normalize_payload: a field that is absent and a field that is null both read
\* as None through payload.get
normalize_payload(pl) ==
  derive_features(
    [field \in NUMERIC_FEATURES \cup BOOLEAN_FEATURES \cup CATEGORICAL_FEATURES |->
       IF field \in NUMERIC_FEATURES THEN pl[field]
       ELSE IF field \in BOOLEAN_FEATURES THEN Truthy(pl[field])
       ELSE IF Truthy(pl[field]) THEN pl[field] ELSE Unknown])

\* the payloads offered to normalize_payload
RawPayloads ==
  {[age |-> a, temperature_c |-> t, heart_rate_bpm |-> h, chills |-> c,
    tachycardia |-> ty, fever_flag |-> ff, gender |-> g] :
     a \in {PyNone, PyNum(11), PyNum(12), PyNum(59), PyNum(60)},
     t \in {PyNone, PyNum(3775), PyNum(3800), PyNum(3825)},
     h \in {PyNone, PyNum(95), PyNum(96), PyNum(100), PyNum(101), PyNum(110),
            PyNum(111)},
     c \in {PyNone, PyFalse, PyTrue},
     ty \in {PyNone, PyFalse, PyTrue},
     ff \in {PyNone, PyFalse, PyTrue},
     g \in {PyNone, PyEmptyStr, PyWord}}

InitNormalize ==
  /\ modelFile = Dumped(Absent)
  /\ metricsFile = modelFile.version
  /\ datasetExists = TRUE
  /\ ServingIdle
  /\ command = NoCommand
  /\ LabIdle
  /\ NormIdle

\* df = normalize_payload(payload), once per run of the script
NormalizeCall ==
  /\ df = NoFrame
  /\ \E pl \in RawPayloads :
       /\ rawPayload' = pl
       /\ df' = normalize_payload(pl)
  /\ UNCHANGED <<fileVars, servingVars, command, labVars>>

NextNormalize == NormalizeCall

SpecNormalize == InitNormalize /\ [][NextNormalize]_vars

\* ================================================================= claims
\* the temperature of the current payload is present and at least t (1/100 C)
TempAtLeast(t) == HasTemperature(payload) /\ payload.temperature_c >= t
TempBelow(t) == HasTemperature(payload) /\ payload.temperature_c < t
OrigReturned == result.status = "returned"
FixedReturned == fixedResult.status = "returned"
ModelSaid(c) == observed.seen /\ ModelPredict(observed.proba) = c

\* C1: for every payload with temperature_c >= 39.0 and every model output,
\* the label either predict returns is "High Fever"
C1_HighFeverFrom39 ==
  TempAtLeast(3900) =>
    /\ OrigReturned => result.label = "High Fever"
    /\ FixedReturned => fixedResult.label = "High Fever"

\* C1 witness: at >= 39.0 the model predicted "No Fever" and predict returned
\* "High Fever"
C1_Witness ==
  /\ TempAtLeast(3900)
  /\ ModelSaid(0)
  /\ OrigReturned
  /\ result.label = "High Fever"

\* C2: for every payload with temperature_c >= 38.0 and every model output the
\* returned label is never "No Fever"; a model prediction of class 0 is replaced
\* by Moderate Fever or High Fever
C2_NeverNoFeverFrom38 ==
  TempAtLeast(3800) =>
    /\ OrigReturned =>
         /\ result.label # "No Fever"
         /\ ModelSaid(0) => result.label \in {"Moderate Fever", "High Fever"}
    /\ FixedReturned =>
         /\ fixedResult.label # "No Fever"
         /\ ModelSaid(0) => fixedResult.label \in {"Moderate Fever", "High Fever"}

\* C2 witness: at 38.0 <= t < 39.0 the model predicted "No Fever" and the FIXED
\* predict returned another label
C2_Witness ==
  /\ TempAtLeast(3800)
  /\ TempBelow(3900)
  /\ ModelSaid(0)
  /\ FixedReturned
  /\ fixedResult.label = "Moderate Fever"

\* C3: in predict_fever_model.py, for temperature_c >= 39.0 and every model
\* probability vector, 0.85 <= returned probability <= 0.98 and the severity is
\* "High probability"
C3_HighProbabilityFrom39 ==
  (TempAtLeast(3900) /\ OrigReturned) =>
    /\ RLe(Rat(85, 100), result.probability)
    /\ RLe(result.probability, Rat(98, 100))
    /\ result.severity = "High probability"

\* C3 witness: at >= 39.0 the model gave High Fever probability 0 and predict
\* returned
C3_Witness ==
  /\ TempAtLeast(3900)
  /\ OrigReturned
  /\ observed.proba[3] = RZero
  /\ result.severity = "High probability"

IsDistribution(p) ==
  /\ \A i \in Classes : RLe(RZero, p[i])
  /\ SumOver(p, Classes) = ROne

\* C4: in predict_fever_model.py, in every branch, a model vector that is
\* non-negative and sums to 1 gives an adjusted vector that is non-negative and
\* sums to 1, and the returned probability is the adjusted vector's entry for
\* the returned class
C4_AdjustedIsDistribution ==
  (OrigReturned /\ IsDistribution(observed.proba)) =>
    /\ IsDistribution(result.probabilities)
    /\ result.probability = result.probabilities[result.predicted_class_index]
    /\ result.label = LABEL_MAP[result.predicted_class_index]

\* C4 witness: an override branch ran (the vector was changed) and predict
\* returned
C4_Witness ==
  /\ OrigReturned
  /\ IsDistribution(observed.proba)
  /\ result.probabilities # observed.proba
  /\ TempBelow(3900)
  /\ ModelSaid(3)

\* C5: predict never loads a model file that does not exist; when the file is
\* absent at entry train_model has run to completion before the load, and when
\* it is present no training runs and the file is left unchanged
C5_TrainsBeforeLoadOnlyIfAbsent ==
  /\ result # Raised("FileNotFoundError: model")
  /\ fixedResult # Raised("FileNotFoundError: model")
  /\ pc = "load" => modelFile.exists
  /\ (pc \in {"load", "infer"} \/ model.loaded) =>
       IF fileAtCall.exists
       THEN ~trainedInCall /\ modelFile = fileAtCall
       ELSE trainedInCall /\ modelFile.exists
  /\ model.loaded => (model.version = modelFile.version /\ model.fit = modelFile.fit)

\* C5 witness: the file was absent at entry, training ran and the model was
\* then loaded
C5_Witness ==
  /\ ~fileAtCall.exists
  /\ trainedInCall
  /\ model.loaded

\* C6: predict_fever_model_FIXED.py is a drop-in replacement: for every
\* temperature (absent, < 38, in [38, 39), >= 39) and every model output both
\* predict functions return the same label
C6_SameLabel ==
  (OrigReturned /\ FixedReturned) => result.label = fixedResult.label

\* C7: when the SHAP computation raises, predict still returns, with
\* top_features = [] and the label and probability it returns when SHAP works
C7_ShapFailureIsHarmless ==
  (pc = "idle" /\ observed.seen /\ observed.shap.raises
     /\ script = "predict_fever_model") =>
    /\ OrigReturned
    /\ result.top_features = <<>>
    /\ \A s \in ShapInputs :
         LET other == PredictOutcome(payload, observed.proba, s)
         IN /\ other.status = "returned"
            /\ other.label = result.label
            /\ other.probability = result.probability
            /\ other.severity = result.severity

\* C7 witness: SHAP raised during a call at an overriding temperature
C7_Witness ==
  /\ pc = "idle"
  /\ observed.seen
  /\ observed.shap.raises
  /\ script = "predict_fever_model"
  /\ OrigReturned
  /\ TempAtLeast(3900)

\* a number that meets the claim's test for a lab reason
LabNumber(x) == x.k = "num"

\* the sentences the claim lists for the lab values, in order
ClaimedReasons(values) ==
  (IF LabNumber(values.wbc_count) /\ values.wbc_count.v > 12000
   THEN <<"Elevated WBC count suggests bacterial stress.">> ELSE <<>>)
  \o (IF LabNumber(values.platelet_count) /\ values.platelet_count.v < 150000
      THEN <<"Low platelet count consistent with viral hemorrhagic fevers.">>
      ELSE <<>>)
  \o (IF LabNumber(values.crp) /\ values.crp.v > 15
      THEN <<"CRP above 15 mg/L indicates ongoing inflammation.">> ELSE <<>>)
  \o (IF LabNumber(values.temperature_c) /\ values.temperature_c.v >= 39
      THEN <<"High temperature observed in report.">> ELSE <<>>)

\* C8: the lab-report predict always returns a non-empty explanation together
\* with fever_type and confidence: the triggered lab reasons (WBC > 12000,
\* platelets < 150000, CRP > 15, temperature >= 39) joined, or, when none
\* triggers, the fallback sentence naming the returned fever_type
C8_AlwaysExplains ==
  (labPc = "done" /\ labRow # NoLabRow) =>
    /\ labResult.status = "returned"
    /\ labResult.explanation # ""
    /\ labResult.explanation =
         IF ClaimedReasons(labPayload.lab_values) = <<>>
         THEN "Pattern of labs aligned with " \o labResult.fever_type \o "."
         ELSE JoinWithSpace(ClaimedReasons(labPayload.lab_values))

\* C9: evaluate_on_test_set scores the saved model on a held-out test set: no
\* sample of the test split was among the samples the loaded model was fit on
C9_TestSplitHeldOut ==
  (command.cmd = "evaluate" /\ command.status = "evaluated") =>
    command.X_test \cap command.model_fit = {}

\* the probability the claim states for a temperature of t/100 >= 39.0
ClaimedHighProbability(t) ==
  IF t < 3950 THEN RAdd(Rat(85, 100), RMul(Rat(6, 100), Rat(t - 3900, 100)))
  ELSE IF t < 4000 THEN RAdd(Rat(88, 100), RMul(Rat(8, 100), Rat(t - 3950, 100)))
  ELSE RMin(Rat(98, 100), RAdd(Rat(92, 100), RMul(Rat(3, 100), Rat(t - 4000, 100))))

\* C10: in predict_fever_model.py, for temperature_c >= 39.0 the returned
\* probability is the stated function of the temperature alone, whatever the
\* model output, and it does not decrease when the temperature rises
C10_ProbabilityIsFunctionOfTemperature ==
  (TempAtLeast(3900) /\ OrigReturned) =>
    /\ result.probability = ClaimedHighProbability(payload.temperature_c)
    /\ \A t2 \in Temperatures :
         t2 >= payload.temperature_c =>
           RLe(result.probability,
               PredictedProb(ClinicalOverride([temperature_c |-> t2], observed.proba)))
    /\ payload.temperature_c = 3900 => result.probability = Rat(85, 100)
    /\ payload.temperature_c = 3950 => result.probability = Rat(88, 100)
    /\ payload.temperature_c = 4000 => result.probability = Rat(92, 100)
    /\ payload.temperature_c = 4100 => result.probability = Rat(95, 100)

\* C10 witness: a call above 40.0 where the cap is not yet reached and the
\* model itself was certain of another class
C10_Witness ==
  /\ TempAtLeast(4100)
  /\ TempBelow(4200)
  /\ OrigReturned
  /\ observed.proba[0] = ROne
  /\ RLt(Rat(92, 100), result.probability)

\* the class the claim names for a "No Fever" prediction at t/100 in [38.0, 39.0)
ClaimedReplacementClass(t) == IF t >= 3850 THEN 3 ELSE 2

\* the probability the claim states for that class
ClaimedReplacementProbability(t) ==
  IF t >= 3850 THEN RAdd(Rat(80, 100), RMul(Rat(10, 100), Rat(t - 3850, 100)))
  ELSE RAdd(Rat(70, 100), RMul(Rat(20, 100), Rat(t - 3800, 100)))

\* C11: in predict_fever_model.py, when 38.0 <= temperature_c < 39.0 and the
\* model predicts No Fever: for t >= 38.5 the result is High Fever with
\* probability 0.80 + 0.10 * (t - 38.5), otherwise Moderate Fever with
\* probability 0.70 + 0.20 * (t - 38.0); the remaining mass is spread over the
\* other three classes in proportion to their model probabilities (evenly if
\* they sum to 0)
C11_NoFeverReplaced ==
  (TempAtLeast(3800) /\ TempBelow(3900) /\ ModelSaid(0) /\ OrigReturned) =>
    LET t == payload.temperature_c
        c == ClaimedReplacementClass(t)
        target == ClaimedReplacementProbability(t)
        others == Classes \ {c}
        others_sum == SumOver(observed.proba, others)
    IN /\ result.label = LABEL_MAP[c]
       /\ result.probability = target
       /\ \A i \in others :
            result.probabilities[i] =
              IF RLt(RZero, others_sum)
              THEN RMul(RDiv(observed.proba[i], others_sum), RSub(ROne, target))
              ELSE RDiv(RSub(ROne, target), Rat(3, 1))

\* C11 witness: at 38.75 the model predicted No Fever and predict returned High
\* Fever with probability 0.825
C11_Witness ==
  /\ HasTemperature(payload)
  /\ payload.temperature_c = 3875
  /\ ModelSaid(0)
  /\ OrigReturned
  /\ result.label = "High Fever"
  /\ result.probability = Rat(825, 1000)

\* C12: in predict_fever_model.py, when 38.0 <= temperature_c < 39.0 and the
\* model predicts High Fever with probability p < 0.85, the label stays High
\* Fever and the returned probability is max(0.85, p + 0.15), which is at least
\* 0.85 and below 1.0
C12_HighFeverBoosted ==
  (TempAtLeast(3800) /\ TempBelow(3900) /\ ModelSaid(3) /\ OrigReturned
     /\ RLt(observed.proba[3], Rat(85, 100))) =>
    /\ result.label = "High Fever"
    /\ result.probability = RMax(Rat(85, 100), RAdd(observed.proba[3], Rat(15, 100)))
    /\ RLe(Rat(85, 100), result.probability)
    /\ RLt(result.probability, ROne)

\* C12 witness: the model predicted High Fever with 0.70 < p < 0.85 at
\* 38.0 <= t < 39.0, so p + 0.15 is the larger operand of the max
C12_Witness ==
  /\ TempAtLeast(3800)
  /\ TempBelow(3900)
  /\ ModelSaid(3)
  /\ OrigReturned
  /\ RLt(Rat(70, 100), observed.proba[3])
  /\ RLt(observed.proba[3], Rat(85, 100))
  /\ RLt(Rat(85, 100), result.probability)

\* C13: compute_shap_values returns at most 5 features, ordered by
\* non-increasing absolute SHAP value; each entry's importance is the absolute
\* value (>= 0) and its direction is "positive" exactly when the signed value is
\* >= 0; indices outside the feature-name list are skipped rather than raising
C13_TopFeaturesWellFormed ==
  (result # NoResult) =>
    /\ OrigReturned
    /\ LET tf == result.top_features
           row == observed.shap.class_shap
           n_names == observed.shap.n_names
       IN /\ Len(tf) <= 5
          /\ \A i \in 1 .. (Len(tf) - 1) : tf[i].importance >= tf[i + 1].importance
          /\ \A i \in 1 .. Len(tf) :
               /\ tf[i].feature < n_names
               /\ tf[i].feature < Len(row)
               /\ tf[i].importance = Abs(row[tf[i].feature + 1])
               /\ tf[i].importance >= 0
               /\ tf[i].direction \in {"positive", "negative"}
               /\ (tf[i].direction = "positive") <=> (row[tf[i].feature + 1] >= 0)
          /\ \A i, j \in 1 .. Len(tf) : tf[i].feature = tf[j].feature => i = j
          /\ (~observed.shap.raises /\ n_names >= Len(row)) =>
               Len(tf) = (IF Len(row) < 5 THEN Len(row) ELSE 5)

\* C13 witness: a row of more than five attributions with fewer feature names
\* than attributions: some of the five largest were skipped, the rest returned,
\* one of them negative
C13_Witness ==
  /\ OrigReturned
  /\ observed.seen
  /\ Len(observed.shap.class_shap) > 5
  /\ observed.shap.n_names < Len(observed.shap.class_shap)
  /\ Len(result.top_features) \in 1 .. 4
  /\ \E i \in 1 .. Len(result.top_features) :
       result.top_features[i].direction = "negative"

\* the heart-rate threshold the claim states for an age
ClaimedThreshold(age) ==
  IF age.k = "num" /\ age.v < 12 THEN 110
  ELSE IF age.k = "num" /\ age.v < 60 THEN 100
  ELSE 95

\* C14: the model input built by normalize_payload carries derived flags,
\* whatever tachycardia or fever_flag the payload supplies: fever_flag = 1
\* exactly when temperature_c >= 38.0, tachycardia = 1 exactly when
\* heart_rate_bpm is strictly greater than the age threshold (110 for age < 12,
\* 100 for age < 60, 95 otherwise); missing boolean fields become False and
\* missing or empty categorical fields become "unknown"
C14_DerivedFlags ==
  (df # NoFrame) =>
    /\ (df.fever_flag = 1) <=>
         (rawPayload.temperature_c.k = "num" /\ rawPayload.temperature_c.v >= 3800)
    /\ (df.tachycardia = 1) <=>
         (rawPayload.heart_rate_bpm.k = "num"
            /\ rawPayload.heart_rate_bpm.v > ClaimedThreshold(rawPayload.age))
    /\ df.fever_flag \in {0, 1}
    /\ df.tachycardia \in {0, 1}
    /\ rawPayload.chills = PyNone => df.chills = FALSE
    /\ rawPayload.gender \in {PyNone, PyEmptyStr} => df.gender = Unknown

\* C14 witness: the payload says tachycardia = true and fever_flag = false, a
\* child of 11 has a heart rate of exactly 110 and a temperature of 38.0, and
\* the frame carries tachycardia = 0 and fever_flag = 1
C14_Witness ==
  /\ df # NoFrame
  /\ rawPayload.tachycardia = PyTrue
  /\ rawPayload.fever_flag = PyFalse
  /\ rawPayload.age = PyNum(11)
  /\ rawPayload.heart_rate_bpm = PyNum(110)
  /\ rawPayload.temperature_c = PyNum(3800)
  /\ df.tachycardia = 0
  /\ df.fever_flag = 1

\* C15: the top_features predict returns are the attributions for the class
\* named in the returned label: the class index compute_shap_values uses equals
\* the predicted class index predict reports, for every temperature and model
\* output, including when the clinical override changes the class
C15_ExplainsReturnedClass ==
  (OrigReturned /\ result.top_features # <<>>) =>
    /\ result.shap_class_index = result.predicted_class_index
    /\ LABEL_MAP[result.shap_class_index] = result.label

====
